---- MODULE Spec2Model ----
(***************************************************************************)
(* Model of the containerd runtime driver of cluster-api-provider-         *)
(* containerd: the container.Runtime operations implemented on top of the  *)
(* containerd client (image pull, host-port lookup, IP lookup, debug info, *)
(* delete, kill, exec).                                                    *)
(*                                                                         *)
(* Strings the code parses or compares are sequences of one-character      *)
(* strings, so that splitting, prefix matching, Atoi, Itoa and ToLower are *)
(* computed the way the code computes them.  The containerd engine is the  *)
(* environment: its state is the variables containers and images, and each *)
(* engine call the code makes may fail with a transport fault, drawn as an *)
(* input of the action that models the handler.                            *)
(***************************************************************************)
EXTENDS Integers, Sequences, FiniteSets, TLC

VARIABLES
    containers,  \* engine: container ID -> container record
    images,      \* engine: names in the image index
    last,        \* the driver operation that returned last, and its result
    exec,        \* the exec session (execActionWithContainer) and its process
    nops,        \* driver operations called so far
    runtime      \* the containerdRuntime handle: its client and namespace

vars == <<containers, images, last, exec, nops, runtime>>

----------------------------------------------------------------------------
(* Bounds of the model *)

\* driver operations called in one behaviour
MaxOps == 1

\* calls to PullContainerImageIfNotExists in one behaviour
MaxPulls == 2

\* engine calls that fail during one driver operation
MaxFaults == 1

\* entries of an environment list
MaxEnv == 2

\* entries of a port-mapping label
MaxPorts == 2

\* OS signals delivered to the calling process during one exec
MaxSignals == 1

----------------------------------------------------------------------------
(* Strings *)

IsPrefix(p, s) == Len(p) <= Len(s) /\ SubSeq(s, 1, Len(p)) = p

\* strings.ToLower, on the letters the model uses
LowerChar(c) ==
    CASE c = "T" -> "t"
      [] c = "C" -> "c"
      [] c = "P" -> "p"
      [] c = "U" -> "u"
      [] c = "D" -> "d"
      [] OTHER -> c

ToLower(s) == [i \in 1..Len(s) |-> LowerChar(s[i])]

DigitChars == <<"0", "1", "2", "3", "4", "5", "6", "7", "8", "9">>

IsDigit(c) == \E i \in 1..10 : DigitChars[i] = c

DigitVal(c) == (CHOOSE i \in 1..10 : DigitChars[i] = c) - 1

RECURSIVE DigitsVal(_)
DigitsVal(s) ==
    IF s = <<>> THEN 0
    ELSE 10 * DigitsVal(SubSeq(s, 1, Len(s) - 1)) + DigitVal(s[Len(s)])

\* strconv.Atoi: an optional sign followed by at least one digit
Atoi(s) ==
    LET signed == s # <<>> /\ s[1] \in {"-", "+"}
        body == IF signed THEN Tail(s) ELSE s
    IN  IF body = <<>> \/ \E i \in 1..Len(body) : ~IsDigit(body[i])
        THEN [ok |-> FALSE, val |-> 0]
        ELSE [ok |-> TRUE,
              val |-> IF signed /\ s[1] = "-" THEN 0 - DigitsVal(body)
                      ELSE DigitsVal(body)]

RECURSIVE NatDigits(_)
NatDigits(n) ==
    IF n < 10 THEN <<DigitChars[n + 1]>>
    ELSE NatDigits(n \div 10) \o <<DigitChars[(n % 10) + 1]>>

\* strconv.Itoa
Itoa(n) == IF n < 0 THEN <<"-">> \o NatDigits(0 - n) ELSE NatDigits(n)

\* strings.Split(s, "/")
RECURSIVE SplitBySlash(_)
SplitBySlash(s) ==
    IF \A i \in 1..Len(s) : s[i] # "/" THEN <<s>>
    ELSE LET k == CHOOSE i \in 1..Len(s) :
                      s[i] = "/" /\ \A j \in 1..(i - 1) : s[j] # "/"
         IN  <<SubSeq(s, 1, k - 1)>> \o SplitBySlash(SubSeq(s, k + 1, Len(s)))

----------------------------------------------------------------------------
(* Errors *)

Err(kind, cause) == [kind |-> kind, cause |-> cause]

NoErr == Err("nil", "")

\* a transport fault of an engine call
RpcCause == "rpc unavailable"

----------------------------------------------------------------------------
(* The engine: containers *)

\* container IDs, in the order the engine lists them
IDOrder == << <<"a", "b">>, <<"a", "c">> >>

IDSet == {IDOrder[i] : i \in 1..Len(IDOrder)}

\* containerd.ProcessStatus, and "None" for a container that has no task
TaskStatuses ==
    {"None", "Created", "Running", "Stopped", "Paused", "Pausing", "Unknown"}

\* gocni.PortMapping entries the port-mapping label may list
PortEntries ==
    { [ContainerPort |-> 8080, Protocol |-> <<"t", "c", "p">>, HostPort |-> 30080],
      [ContainerPort |-> 8080, Protocol |-> <<"T", "C", "P">>, HostPort |-> 30081],
      [ContainerPort |-> 8080, Protocol |-> <<"u", "d", "p">>, HostPort |-> 30082],
      [ContainerPort |-> 53, Protocol |-> <<"t", "c", "p">>, HostPort |-> 30053] }

RECURSIVE SeqsUpTo(_, _)
SeqsUpTo(S, n) ==
    IF n = 0 THEN {<<>>}
    ELSE LET shorter == SeqsUpTo(S, n - 1)
         IN  shorter \cup {Append(q, x) : q \in shorter, x \in S}

\* the value of labels.Ports: the label is unset (or the empty string), is not
\* JSON, or encodes a list of port mappings
AbsentLabel == [set |-> FALSE, json |-> FALSE, ports |-> <<>>]

MalformedLabel == [set |-> TRUE, json |-> FALSE, ports |-> <<>>]

ListLabel(ps) == [set |-> TRUE, json |-> TRUE, ports |-> ps]

PortLabels ==
    {AbsentLabel, MalformedLabel} \cup {ListLabel(ps) : ps \in SeqsUpTo(PortEntries, MaxPorts)}

NoContainer ==
    [present |-> FALSE, name |-> <<>>, task |-> "None", ports |-> AbsentLabel,
     stopSignal |-> "", hasLog |-> FALSE]

\* the labels and the log file the containers of the model were created
\* with: container "ab" without port mappings, stop signal or json log file,
\* container "ac" with all three
Profile(id) ==
    IF id = <<"a", "b">>
    THEN [ports |-> AbsentLabel, stopSignal |-> "", hasLog |-> FALSE]
    ELSE [ports |-> ListLabel(<<CHOOSE e \in PortEntries : e.HostPort = 30080>>),
          stopSignal |-> "SIGINT", hasLog |-> TRUE]

ContainerStates(id) ==
    {NoContainer} \cup
    { [present |-> TRUE, name |-> n, task |-> t, ports |-> Profile(id).ports,
       stopSignal |-> Profile(id).stopSignal, hasLog |-> Profile(id).hasLog] :
        n \in {<<>>, <<"n">>}, t \in TaskStatuses }

\* the sets of engine calls that fail during one driver operation
FaultSets(F) == {f \in SUBSET F : Cardinality(f) <= MaxFaults}

\* names and ID prefixes callers ask for
Reqs == { <<"a">>, <<"a", "c">>, <<"n">>, <<"z">> }

\* containerwalker's filter: the name label equals req, or the ID starts with req
WalkMatches(cs, req) ==
    SelectSeq(IDOrder, LAMBDA id :
        cs[id].present /\ (cs[id].name = req \/ IsPrefix(req, id)))

\* the containerwalker.Found records Walk hands to OnFound, in order
WalkFound(cs, req) ==
    LET ms == WalkMatches(cs, req)
    IN  [i \in 1..Len(ms) |->
            [Container |-> ms[i], Req |-> req, MatchIndex |-> i - 1,
             MatchCount |-> Len(ms)]]

\* a driver that would not look at Walk's count
NoMatchIgnored(n) == FALSE

\* the test of Walk's count that reports a name no container matches
NoMatch(n) == n = 0

\* client.LoadContainer: an exact ID lookup
LoadContainer(cs, req, f) ==
    IF "LoadContainer" \in f THEN Err("engine", RpcCause)
    ELSE IF req \notin IDSet \/ ~cs[req].present THEN Err("not found", "container")
    ELSE NoErr

\* container.Task: the task of the container, "not found" when it has none
ContainerTask(c, f) ==
    IF "Task" \in f THEN Err("engine", RpcCause)
    ELSE IF c.task = "None" THEN Err("not found", "task")
    ELSE NoErr

\* container.Delete(WithSnapshotCleanup): the client refuses while it can load
\* a task of the container, and removes the container otherwise
ContainerDelete(cs, id, f) ==
    IF ContainerTask(cs[id], f) = NoErr
    THEN [err |-> Err("failed precondition", "cannot delete running task"), cs |-> cs]
    ELSE IF "container.Delete" \in f THEN [err |-> Err("engine", RpcCause), cs |-> cs]
    ELSE [err |-> NoErr, cs |-> [cs EXCEPT ![id] = NoContainer]]

\* task.Delete
TaskDelete(cs, id, f) ==
    IF "task.Delete" \in f THEN [err |-> Err("engine", RpcCause), cs |-> cs]
    ELSE [err |-> NoErr, cs |-> [cs EXCEPT ![id].task = "None"]]

----------------------------------------------------------------------------
(* DeleteContainer *)

DeleteFaults == {"LoadContainer", "Task", "Status", "task.Delete", "container.Delete"}

\* a driver that would also delete a running task
DeletableStatusOrRunning(status) == status \in {"Stopped", "Created", "Running"}

\* the statuses DeleteContainer deletes the task in
DeletableStatus(status) == status \in {"Stopped", "Created"}

\* [err, calls, cs]: the error returned, the engine calls issued in order,
\* and the engine's containers afterwards
DeleteContainer(cs, req, f) ==
    LET loadErr == LoadContainer(cs, req, f)
    IN
    IF loadErr # NoErr
    THEN [err |-> loadErr, calls |-> <<"LoadContainer">>, cs |-> cs]
    ELSE IF ContainerTask(cs[req], f) # NoErr
    THEN LET d == ContainerDelete(cs, req, f)
         IN  [err |-> d.err,
              calls |-> <<"LoadContainer", "Task", "container.Delete">>,
              cs |-> d.cs]
    ELSE IF "Status" \in f
    THEN [err |-> Err("engine", RpcCause),
          calls |-> <<"LoadContainer", "Task", "Status">>, cs |-> cs]
    ELSE IF DeletableStatus(cs[req].task)
    THEN LET t == TaskDelete(cs, req, f)
         IN  IF t.err # NoErr
             THEN [err |-> t.err,
                   calls |-> <<"LoadContainer", "Task", "Status", "task.Delete">>,
                   cs |-> cs]
             ELSE LET d == ContainerDelete(t.cs, req, f)
                  IN  [err |-> d.err,
                       calls |-> <<"LoadContainer", "Task", "Status",
                                   "task.Delete", "container.Delete">>,
                       cs |-> d.cs]
    ELSE [err |-> Err("state conflict", cs[req].task),
          calls |-> <<"LoadContainer", "Task", "Status">>, cs |-> cs]

----------------------------------------------------------------------------
(* KillContainer *)

\* sysignal.ParseSignal on the names the model uses: the signal number, or 0
\* for a name that is no signal
SignalNumber(name) ==
    CASE name = "SIGTERM" -> 15
      [] name = "SIGKILL" -> 9
      [] name = "SIGINT" -> 2
      [] OTHER -> 0

\* a parser that would accept every name
ParseSignalLenient(name) == [err |-> NoErr, sig |-> SignalNumber(name)]

ParseSignal(name) ==
    IF SignalNumber(name) = 0
    THEN [err |-> Err("invalid signal", name), sig |-> 0]
    ELSE [err |-> NoErr, sig |-> SignalNumber(name)]

defaultSignal == "SIGTERM"

\* a lookup that would not read the stop-signal label
GetStopSignalDefaultOnly(c, default, f) ==
    IF "Labels" \in f THEN [err |-> Err("engine", RpcCause), sig |-> 0]
    ELSE [err |-> NoErr, sig |-> default]

\* containerd.GetStopSignal: the container's stop-signal label, parsed, or the
\* default when the label is not set
GetStopSignal(c, default, f) ==
    IF "Labels" \in f THEN [err |-> Err("engine", RpcCause), sig |-> 0]
    ELSE IF c.stopSignal = "" THEN [err |-> NoErr, sig |-> default]
    ELSE ParseSignal(c.stopSignal)

\* signal names callers pass to KillContainer
SignalArgs == {"", "SIGKILL", "BOGUS"}

KillFaults == {"LoadContainer", "Labels", "Task", "task.Kill"}

\* task.Kill(sig, WithKillAll): refused for a task that has already stopped;
\* a delivered signal may or may not stop the task (dies)
TaskKill(cs, id, sig, f, dies) ==
    IF "task.Kill" \in f THEN [err |-> Err("engine", RpcCause), cs |-> cs, sent |-> <<>>]
    ELSE IF cs[id].task = "Stopped"
    THEN [err |-> Err("not found", "process already finished"), cs |-> cs, sent |-> <<>>]
    ELSE [err |-> NoErr,
          cs |-> IF dies THEN [cs EXCEPT ![id].task = "Stopped"] ELSE cs,
          sent |-> <<[sig |-> sig, all |-> TRUE]>>]

\* [err, calls, cs, sent]
KillContainer(cs, req, signal, f, dies) ==
    LET dflt == ParseSignal(defaultSignal)
        loadErr == LoadContainer(cs, req, f)
        chosen == IF signal # "" THEN ParseSignal(signal)
                  ELSE GetStopSignal(cs[req], dflt.sig, f)
        sigCalls == IF signal # "" THEN <<"LoadContainer">>
                    ELSE <<"LoadContainer", "Labels">>
    IN
    IF dflt.err # NoErr
    THEN [err |-> dflt.err, calls |-> <<>>, cs |-> cs, sent |-> <<>>]
    ELSE IF loadErr # NoErr
    THEN [err |-> loadErr, calls |-> <<"LoadContainer">>, cs |-> cs, sent |-> <<>>]
    ELSE IF chosen.err # NoErr
    THEN [err |-> chosen.err, calls |-> sigCalls, cs |-> cs, sent |-> <<>>]
    ELSE IF ContainerTask(cs[req], f) # NoErr
    THEN [err |-> ContainerTask(cs[req], f), calls |-> Append(sigCalls, "Task"),
          cs |-> cs, sent |-> <<>>]
    ELSE LET k == TaskKill(cs, req, chosen.sig, f, dies)
         IN  [err |-> k.err, calls |-> sigCalls \o <<"Task", "task.Kill">>,
              cs |-> k.cs, sent |-> k.sent]

----------------------------------------------------------------------------
(* GetHostPort *)

\* Labels()[labels.Ports] decoded by json.Unmarshal, and the linear scan
\* [port, err]
printPort(c, argPort, argProto, f) ==
    IF "Labels" \in f THEN [port |-> <<>>, err |-> Err("engine", RpcCause)]
    ELSE IF ~c.ports.set THEN [port |-> <<>>, err |-> NoErr]
    ELSE IF ~c.ports.json THEN [port |-> <<>>, err |-> Err("json", "unmarshal")]
    ELSE LET ps == c.ports.ports
             hits == {i \in 1..Len(ps) :
                         ps[i].ContainerPort = argPort
                         /\ ToLower(ps[i].Protocol) = argProto}
         IN  IF hits = {}
             THEN [port |-> <<>>, err |-> Err("no host port found", "")]
             ELSE [port |-> Itoa(ps[CHOOSE i \in hits : \A j \in hits : i <= j].HostPort),
                   err |-> NoErr]

\* the parsing of portAndProtocol at the head of GetHostPort
\* [err, argPort, argProto]
ParsePortProto(portProto) ==
    IF portProto = <<>> THEN [err |-> NoErr, argPort |-> 0 - 1, argProto |-> <<>>]
    ELSE LET splitBySlash == SplitBySlash(portProto)
             n == Atoi(splitBySlash[1])
         IN  IF ~n.ok
             THEN [err |-> Err("atoi", "invalid syntax"), argPort |-> 0 - 1, argProto |-> <<>>]
             ELSE IF n.val <= 0
             THEN [err |-> Err("unexpected port", ""), argPort |-> n.val, argProto |-> <<>>]
             ELSE IF Len(splitBySlash) = 1
             THEN [err |-> NoErr, argPort |-> n.val, argProto |-> <<"t", "c", "p">>]
             ELSE IF Len(splitBySlash) = 2
             THEN [err |-> NoErr, argPort |-> n.val, argProto |-> ToLower(splitBySlash[2])]
             ELSE [err |-> Err("failed to parse", ""), argPort |-> n.val, argProto |-> <<>>]

\* the OnFound callback of GetHostPort applied to the Found records in order:
\* the walk stops at the first error.  st is [port, err, acted]
RECURSIVE HostPortWalk(_, _, _, _, _, _, _)
HostPortWalk(cs, founds, i, st, argPort, argProto, f) ==
    IF i > Len(founds) \/ st.err # NoErr THEN st
    ELSE LET found == founds[i]
         IN  IF found.MatchCount > 1
             THEN HostPortWalk(cs, founds, i + 1,
                      [st EXCEPT !.err = Err("ambiguous", found.Req)],
                      argPort, argProto, f)
             ELSE LET p == printPort(cs[found.Container], argPort, argProto, f)
                  IN  HostPortWalk(cs, founds, i + 1,
                          [port |-> p.port, err |-> p.err,
                           acted |-> st.acted \cup {found.Container}],
                          argPort, argProto, f)

HostPortFaults == {"Containers", "Labels"}

\* [err, port, calls, acted]
GetHostPort(cs, req, portAndProtocol, f) ==
    LET parsed == ParsePortProto(portAndProtocol)
        founds == WalkFound(cs, req)
        st == HostPortWalk(cs, founds, 1,
                  [port |-> <<>>, err |-> NoErr, acted |-> {}],
                  parsed.argPort, parsed.argProto, f)
    IN
    IF parsed.err # NoErr
    THEN [err |-> parsed.err, port |-> <<>>, calls |-> <<>>, acted |-> {}]
    ELSE IF "Containers" \in f
    THEN [err |-> Err("engine", RpcCause), port |-> <<>>,
          calls |-> <<"Containers">>, acted |-> {}]
    ELSE IF st.err # NoErr
    THEN [err |-> st.err, port |-> <<>>,
          calls |-> IF st.acted = {} THEN <<"Containers">> ELSE <<"Containers", "Labels">>,
          acted |-> st.acted]
    ELSE IF NoMatch(Len(founds))
    THEN [err |-> Err("no such container", req), port |-> <<>>,
          calls |-> <<"Containers">>, acted |-> {}]
    ELSE [err |-> NoErr, port |-> st.port, calls |-> <<"Containers", "Labels">>,
          acted |-> st.acted]

\* port/protocol arguments callers pass to GetHostPort
PortArgs ==
    { <<>>,
      <<"8", "0", "8", "0">>,
      <<"8", "0", "8", "0", "/", "t", "c", "p">>,
      <<"8", "0", "8", "0", "/", "T", "C", "P">>,
      <<"8", "0", "8", "0", "/", "u", "d", "p">>,
      <<"5", "3", "/", "u", "d", "p">>,
      <<"0", "/", "t", "c", "p">>,
      <<"-", "1">>,
      <<"/", "t", "c", "p">>,
      <<"x">>,
      <<"8", "0", "8", "0", "/", "t", "c", "p", "/", "x">> }

----------------------------------------------------------------------------
(* containerInspector, GetContainerIPs, ContainerDebugInfo *)

\* the network metadata of a container, as inspect reports it
IPAddress(id) == <<"ip4">> \o id

GlobalIPv6Address(id) == <<"ip6">> \o id

\* containerInspector.Handler applied to the Found records in order: each
\* container is inspected and appended to entries; the walk stops at the
\* first error.  bad is the set of containers whose inspection fails.
\* st is [entries, err]
RECURSIVE InspectWalk(_, _, _, _)
InspectWalk(founds, i, st, bad) ==
    IF i > Len(founds) \/ st.err # NoErr THEN st
    ELSE IF founds[i].Container \in bad
    THEN InspectWalk(founds, i + 1, [st EXCEPT !.err = Err("engine", "inspect")], bad)
    ELSE InspectWalk(founds, i + 1,
             [st EXCEPT !.entries = Append(st.entries, founds[i].Container)], bad)

\* what executing a template on an entry can do: succeed, fail with a
\* template.ExecError, or fail with an error of another class; a failing
\* execution may have written part of its output; the raw-format fallback
\* succeeds or fails
RenderOk == [typed |-> "ok", partial |-> FALSE, raw |-> "ok"]

RenderOutcomes ==
    {RenderOk} \cup
    [typed : {"ExecError"}, partial : BOOLEAN, raw : {"ok", "fail"}] \cup
    [typed : {"other"}, partial : BOOLEAN, raw : {"ok"}]

\* tryRawFormat: appends the raw rendering to the buffer, or fails
tryRawFormat(b, value, r) ==
    IF r.raw = "ok" THEN [b |-> Append(b, value), err |-> NoErr]
    ELSE [b |-> b, err |-> Err("template parsing error", "raw")]

\* formatSlice: renders the first entry only.  format names the field the
\* template selects from an entry.  [out, err]
formatSlice(x, format, r) ==
    IF Len(x) = 0 THEN [out |-> <<>>, err |-> NoErr]
    ELSE LET value == IF format = "IPAddress" THEN IPAddress(x[1])
                      ELSE GlobalIPv6Address(x[1])
             b == IF r.typed = "ok" THEN <<value>>
                  ELSE IF r.partial THEN << <<"partial">> >> ELSE <<>>
         IN  IF r.typed = "ExecError"
             THEN LET raw == tryRawFormat(b, value, r)
                  IN  IF raw.err # NoErr THEN [out |-> <<>>, err |-> raw.err]
                      ELSE [out |-> raw.b, err |-> NoErr]
             ELSE [out |-> b, err |-> NoErr]

InspectFaults == {"Containers"}

\* [err, ip, ipv6, calls, acted]
GetContainerIPs(cs, req, f, bad, r4, r6) ==
    LET founds == WalkFound(cs, req)
        st == InspectWalk(founds, 1, [entries |-> <<>>, err |-> NoErr], bad)
        acted == {founds[i].Container : i \in 1..Len(st.entries)}
        calls == <<"Containers">> \o [i \in 1..Len(st.entries) |-> "Inspect"]
        ip == formatSlice(st.entries, "IPAddress", r4)
        ipv6 == formatSlice(st.entries, "GlobalIPv6Address", r6)
        none == <<>>
    IN
    IF "Containers" \in f
    THEN [err |-> Err("engine", RpcCause), ip |-> none, ipv6 |-> none,
          calls |-> <<"Containers">>, acted |-> {}]
    ELSE IF st.err # NoErr
    THEN [err |-> st.err, ip |-> none, ipv6 |-> none,
          calls |-> Append(calls, "Inspect"), acted |-> acted]
    ELSE IF NoMatch(Len(founds))
    THEN [err |-> Err("no such object", req), ip |-> none, ipv6 |-> none,
          calls |-> calls, acted |-> acted]
    ELSE IF ip.err # NoErr
    THEN [err |-> ip.err, ip |-> none, ipv6 |-> none, calls |-> calls, acted |-> acted]
    ELSE IF ipv6.err # NoErr
    THEN [err |-> ipv6.err, ip |-> none, ipv6 |-> none, calls |-> calls, acted |-> acted]
    ELSE [err |-> NoErr, ip |-> ip.out, ipv6 |-> ipv6.out, calls |-> calls,
          acted |-> acted]

\* a callback that would open the log file without looking for it first
StatLogSkipped(cs, id) == TRUE

\* os.Stat of the container's json log file succeeds: the file is there
StatLog(cs, id) == cs[id].hasLog

\* the OnFound callback of ContainerDebugInfo's second walk applied to the
\* Found records in order: the json log file of each container is located,
\* opened and decoded into the sink.  st is [out, err, acted]
RECURSIVE LogWalk(_, _, _, _, _)
LogWalk(cs, founds, i, st, f) ==
    IF i > Len(founds) \/ st.err # NoErr THEN st
    ELSE LET id == founds[i].Container
             seen == [st EXCEPT !.acted = st.acted \cup {id}]
         IN  IF ~StatLog(cs, id)
             THEN LogWalk(cs, founds, i + 1,
                      [seen EXCEPT !.err = Err("log file missing", "not created with run -d?")],
                      f)
             ELSE IF "Open" \in f
             THEN LogWalk(cs, founds, i + 1, [seen EXCEPT !.err = Err("io", "open")], f)
             ELSE LET banner == Append(seen.out, <<"Got logs from the container:">>)
                  IN  IF "Decode" \in f
                      THEN LogWalk(cs, founds, i + 1,
                               [seen EXCEPT !.out = banner, !.err = Err("io", "decode")], f)
                      ELSE LogWalk(cs, founds, i + 1,
                               [seen EXCEPT !.out = Append(banner, <<"logs">> \o id)], f)

DebugFaults == {"Containers", "Containers#2", "Open", "Decode"}

\* [err, out, calls, acted]: out is what was written to the sink w
ContainerDebugInfo(cs, req, f, bad) ==
    LET founds == WalkFound(cs, req)
        st == InspectWalk(founds, 1, [entries |-> <<>>, err |-> NoErr], bad)
        inspected == {founds[i].Container : i \in 1..Len(st.entries)}
        calls == <<"Containers">> \o [i \in 1..Len(st.entries) |-> "Inspect"]
        info == << <<"Inspected the container:">>, <<"info">> \o st.entries >>
        logs == LogWalk(cs, founds, 1, [out |-> info, err |-> NoErr, acted |-> {}], f)
    IN
    IF "Containers" \in f
    THEN [err |-> Err("engine", RpcCause), out |-> <<>>, calls |-> <<"Containers">>,
          acted |-> {}]
    ELSE IF st.err # NoErr
    THEN [err |-> st.err, out |-> <<>>, calls |-> Append(calls, "Inspect"),
          acted |-> inspected]
    ELSE IF NoMatch(Len(founds))
    THEN [err |-> Err("no such object", req), out |-> <<>>, calls |-> calls,
          acted |-> inspected]
    ELSE IF "Containers#2" \in f
    THEN [err |-> Err("engine", RpcCause), out |-> info,
          calls |-> Append(calls, "Containers#2"), acted |-> inspected]
    ELSE IF logs.err # NoErr
    THEN [err |-> logs.err, out |-> logs.out, calls |-> Append(calls, "Containers#2"),
          acted |-> inspected \cup logs.acted]
    ELSE [err |-> NoErr, out |-> logs.out, calls |-> Append(calls, "Containers#2"),
          acted |-> inspected \cup logs.acted]

----------------------------------------------------------------------------
(* ListContainers, getPrintableContainerName *)

\* labels.Name and the k8slabels keys
NameLabel == "nerdctl/name"

PodNamespace == "io.kubernetes.pod.namespace"

PodName == "io.kubernetes.pod.name"

ContainerName == "io.kubernetes.container.name"

LabelKeys == {NameLabel, PodNamespace, PodName, ContainerName}

\* label values: the empty string and two names
LabelValues == { <<>>, <<"d">>, <<"w">> }

\* label maps: any of the keys, each with any of the values
LabelMaps == UNION {[keys -> LabelValues] : keys \in SUBSET LabelKeys}

K8sScheme == <<"k", "8", "s", ":", "/", "/">>

\* a naming that would prefer the pod labels to the name label
getPrintableContainerNamePodFirst(containerLabels) ==
    IF PodNamespace \in DOMAIN containerLabels /\ PodName \in DOMAIN containerLabels
    THEN IF ContainerName \in DOMAIN containerLabels
         THEN K8sScheme \o containerLabels[PodNamespace] \o <<"/">>
                  \o containerLabels[PodName] \o <<"/">>
                  \o containerLabels[ContainerName]
         ELSE K8sScheme \o containerLabels[PodNamespace] \o <<"/">>
                  \o containerLabels[PodName]
    ELSE IF NameLabel \in DOMAIN containerLabels THEN containerLabels[NameLabel]
    ELSE <<>>

getPrintableContainerName(containerLabels) ==
    IF NameLabel \in DOMAIN containerLabels THEN containerLabels[NameLabel]
    ELSE IF PodNamespace \in DOMAIN containerLabels /\ PodName \in DOMAIN containerLabels
    THEN IF ContainerName \in DOMAIN containerLabels
         THEN K8sScheme \o containerLabels[PodNamespace] \o <<"/">>
                  \o containerLabels[PodName] \o <<"/">>
                  \o containerLabels[ContainerName]
         ELSE K8sScheme \o containerLabels[PodNamespace] \o <<"/">>
                  \o containerLabels[PodName]
    ELSE <<>>

\* info.Labels of a container of the engine: its name label, if it has one
InfoLabels(c) == [k \in (IF c.name = <<>> THEN {} ELSE {NameLabel}) |-> c.name]

\* the container.Container summary ListContainers builds from a container
Summary(c) ==
    [Name |-> getPrintableContainerName(InfoLabels(c)), Image |-> "image",
     Status |-> c.task]

\* what c.Info does for a container of the enumeration: it answers, the
\* container has vanished (the engine's not-found error), or the call fails
InfoOutcomes == {"ok", "vanished", "fail"}

\* errdefs.IsNotFound of github.com/docker/docker/errdefs applied to an error
\* of the containerd client: true only for an error that implements Docker's
\* NotFound() marker, which the engine's not-found error does in some
\* versions of the containerd errdefs package (marked) and not in others
IsNotFound(err, marked) == err.kind = "not found" /\ marked

\* the loop of ListContainers over the enumerated containers
\* st is [result, err, warned]
RECURSIVE ListWalk(_, _, _, _, _, _)
ListWalk(cs, ids, i, st, info, marked) ==
    IF i > Len(ids) \/ st.err # NoErr THEN st
    ELSE LET err == IF info[ids[i]] = "vanished" THEN Err("not found", "container")
                    ELSE Err("engine", RpcCause)
         IN  IF info[ids[i]] = "ok"
             THEN ListWalk(cs, ids, i + 1,
                      [st EXCEPT !.result = Append(@, Summary(cs[ids[i]]))], info, marked)
             ELSE IF IsNotFound(err, marked)
             THEN ListWalk(cs, ids, i + 1,
                      [st EXCEPT !.warned = Append(@, ids[i])], info, marked)
             ELSE ListWalk(cs, ids, i + 1, [st EXCEPT !.err = err], info, marked)

ListFaults == {"Containers"}

\* [err, result, calls, warned]
ListContainers(cs, info, f, marked) ==
    LET ids == SelectSeq(IDOrder, LAMBDA id : cs[id].present)
        st == ListWalk(cs, ids, 1, [result |-> <<>>, err |-> NoErr, warned |-> <<>>],
                       info, marked)
        fetched == Len(st.result) + Len(st.warned) + (IF st.err # NoErr THEN 1 ELSE 0)
        calls == <<"Containers">> \o [i \in 1..fetched |-> "Info"]
    IN
    IF "Containers" \in f
    THEN [err |-> Err("engine", RpcCause), result |-> <<>>, calls |-> <<"Containers">>,
          warned |-> <<>>]
    ELSE IF st.err # NoErr
    THEN [err |-> st.err, result |-> <<>>, calls |-> calls, warned |-> st.warned]
    ELSE [err |-> NoErr, result |-> st.result, calls |-> calls, warned |-> st.warned]

----------------------------------------------------------------------------
(* PullContainerImageIfNotExists *)

\* an image reference string, by its syntactic parts: an optional registry
\* domain, the repository path, an optional tag
Domains == {"", "docker.io", "index.docker.io"}

Repos == {"library/nginx", "Nginx"}

Tags == {"", "latest"}

ImageRefs == [domain : Domains, repo : Repos, tag : Tags]

\* refdocker.ParseDockerRef: rejects a repository name that is not lower
\* case; fills in the default domain (also for the legacy index domain) and
\* the default tag.  [err, ref]
ParseDockerRef(image) ==
    IF image.repo = "Nginx"
    THEN [err |-> Err("invalid reference format", "repository name must be lowercase"),
          ref |-> image]
    ELSE [err |-> NoErr,
          ref |-> [domain |-> IF image.domain \in {"", "index.docker.io"}
                              THEN "docker.io" ELSE image.domain,
                   repo |-> image.repo,
                   tag |-> IF image.tag = "" THEN "latest" ELSE image.tag]]

\* client.ListImages with the filter name==<name>
ListImages(imgs, name) == imgs \cap {name}

\* client.Pull(ctx, ref): the resolver needs a registry host and a tag; the
\* image is recorded in the index under the reference it was pulled by
EnginePull(imgs, ref, f) ==
    IF "Pull" \in f THEN [err |-> RpcCause, imgs |-> imgs]
    ELSE IF ref.domain = "" \/ ref.tag = ""
    THEN [err |-> "cannot resolve reference", imgs |-> imgs]
    ELSE [err |-> "", imgs |-> imgs \cup {ref}]

\* the reference PullContainerImageIfNotExists hands to client.Pull
PullArgument(image, ref) == image

PullFaults == {"ListImages", "Pull"}

\* a driver that would go on to pull when the listing failed
PullDespiteListFailure(imgs, image, f) ==
    LET parsed == ParseDockerRef(image)
        pulled == EnginePull(imgs, PullArgument(image, parsed.ref), f)
    IN
    IF parsed.err # NoErr
    THEN [err |-> Err("failed to parse image reference", parsed.err.cause),
          calls |-> <<>>, imgs |-> imgs]
    ELSE IF "ListImages" \notin f /\ ListImages(imgs, parsed.ref) # {}
    THEN [err |-> NoErr, calls |-> <<"ListImages">>, imgs |-> imgs]
    ELSE IF pulled.err # ""
    THEN [err |-> Err("error pulling image", pulled.err),
          calls |-> <<"ListImages", "Pull">>, imgs |-> pulled.imgs]
    ELSE [err |-> NoErr, calls |-> <<"ListImages", "Pull">>, imgs |-> pulled.imgs]

\* [err, calls, imgs]
PullContainerImageIfNotExists(imgs, image, f) ==
    LET parsed == ParseDockerRef(image)
        pulled == EnginePull(imgs, PullArgument(image, parsed.ref), f)
    IN
    IF parsed.err # NoErr
    THEN [err |-> Err("failed to parse image reference", parsed.err.cause),
          calls |-> <<>>, imgs |-> imgs]
    ELSE IF "ListImages" \in f
    THEN [err |-> Err("error listing images", RpcCause),
          calls |-> <<"ListImages">>, imgs |-> imgs]
    ELSE IF ListImages(imgs, parsed.ref) # {}
    THEN [err |-> NoErr, calls |-> <<"ListImages">>, imgs |-> imgs]
    ELSE IF pulled.err # ""
    THEN [err |-> Err("error pulling image", pulled.err),
          calls |-> <<"ListImages", "Pull">>, imgs |-> pulled.imgs]
    ELSE [err |-> NoErr, calls |-> <<"ListImages", "Pull">>, imgs |-> pulled.imgs]

----------------------------------------------------------------------------
(* generateExecProcessSpec *)

\* environment entries "NAME=value"
EnvEntries ==
    { <<"A", "=", "0">>, <<"A", "=", "1">>, <<"B", "=", "2">> }

\* the variable name of an entry: the text before the first "="
EnvName(e) ==
    IF \A i \in 1..Len(e) : e[i] # "=" THEN e
    ELSE SubSeq(e, 1, (CHOOSE i \in 1..Len(e) :
                          e[i] = "=" /\ \A j \in 1..(i - 1) : e[j] # "=") - 1)

\* strutil.DedupeStrSlice: drops every string that occurred earlier in the list
RECURSIVE DedupeStrSlice(_)
DedupeStrSlice(in) ==
    IF in = <<>> THEN <<>>
    ELSE LET front == SubSeq(in, 1, Len(in) - 1)
             s == in[Len(in)]
         IN  IF \E i \in 1..Len(front) : front[i] = s
             THEN DedupeStrSlice(front)
             ELSE Append(DedupeStrSlice(front), s)

\* the environment of the exec process: the container's, then the caller's
MergeEnv(specEnv, env) == specEnv \o DedupeStrSlice(env)

\* cap.Current(): the capabilities of the calling process
CurrentCaps == {"CAP_CHOWN", "CAP_NET_ADMIN", "CAP_SYS_ADMIN"}

\* setExecCapabilities: all four sets become the current capability set
setExecCapabilities(caps) ==
    [Bounding |-> CurrentCaps, Permitted |-> CurrentCaps,
     Inheritable |-> CurrentCaps, Effective |-> CurrentCaps]

\* the privileged flag generateExecProcessSpec acts on
Privileged(config) == TRUE

SpecFaults == {"Spec", "cap.Current"}

\* [err, pspec]: process is the container's spec.Process
generateExecProcessSpec(process, config, args, f) ==
    IF "Spec" \in f THEN [err |-> Err("engine", RpcCause), pspec |-> process]
    ELSE IF Privileged(config) /\ "cap.Current" \in f
    THEN [err |-> Err("capabilities", "cap.Current"), pspec |-> process]
    ELSE [err |-> NoErr,
          pspec |-> [Args |-> args,
                     Env |-> MergeEnv(process.Env, config.EnvironmentVars),
                     Capabilities |-> IF Privileged(config)
                                      THEN setExecCapabilities(process.Capabilities)
                                      ELSE process.Capabilities]]

\* the capability sets of a container's own process
ContainerCaps ==
    [Bounding |-> {"CAP_CHOWN"}, Permitted |-> {"CAP_CHOWN"},
     Inheritable |-> {}, Effective |-> {"CAP_CHOWN"}]

\* spec.Process of the containers of the engine
ContainerProcess(id) ==
    [Args |-> <<"init">>, Env |-> << <<"A", "=", "0">>, <<"B", "=", "2">> >>,
     Capabilities |-> ContainerCaps]

\* container.ExecContainerInput values callers pass
ExecConfigs ==
    [InputBuffer : {"nil", "in"}, OutputBuffer : {"out"}, ErrorBuffer : {"err"},
     EnvironmentVars : {<<>>, << <<"A", "=", "1">> >>}]

\* the streams handed to cio.WithStreams: [stdin, stdout, stderr]
ExecStreams(config) ==
    [stdin |-> IF config.InputBuffer # "nil" THEN "os.Stdin" ELSE "nil",
     stdout |-> "os.Stdout", stderr |-> "os.Stderr"]

----------------------------------------------------------------------------
(* The runtime handle and the namespace of engine calls *)

\* engine namespaces
Namespaces == {"default", "k8s.io", "moby", "capi"}

\* NewContainerdClient(socketPath, namespace)
NewContainerdClient(namespace) == [client |-> "client", namespace |-> namespace]

\* the context a caller passes: it carries a namespace or none ("")
Contexts == [namespace : Namespaces \cup {""}]

\* namespaces.WithNamespace(ctx, namespace)
WithNamespace(ctx, namespace) == [ctx EXCEPT !.namespace = namespace]

\* the operations of the driver that call the engine
DriverOps ==
    {"PullContainerImageIfNotExists", "GetHostPort", "GetContainerIPs", "ExecContainer",
     "ListContainers", "ContainerDebugInfo", "DeleteContainer", "KillContainer"}

\* the context an operation issues its engine calls with: only
\* PullContainerImageIfNotExists puts the handle's namespace on it
OpContext(op, rt, ctx) ==
    IF op = "PullContainerImageIfNotExists" THEN WithNamespace(ctx, rt.namespace)
    ELSE ctx

\* the namespace of the files an operation reads: ContainerDebugInfo locates
\* the json log under a fixed namespace directory
FileNamespace(op, rt, ctx) ==
    IF op = "ContainerDebugInfo" THEN "default" ELSE OpContext(op, rt, ctx).namespace

----------------------------------------------------------------------------
(* State *)

\* the faults among f that hit a call the operation issued
Hit(f, calls) == {x \in f : \E i \in 1..Len(calls) : calls[i] = x}

\* the result of a driver operation: its arguments, the faults that hit it,
\* what it returned (r) and the engine's containers when it was called (pre)
Result(op, req, arg, f, r, pre) ==
    [op |-> op, req |-> req, arg |-> arg, faults |-> Hit(f, r.calls), r |-> r,
     pre |-> pre]

NoResult == Result("none", <<>>, <<>>, {}, [err |-> NoErr, calls |-> <<>>], <<>>)

\* no exit status received
NoStatus == [code |-> 0, err |-> "none"]

\* no exec session: no handle in the engine, no process, no relay
NoExec ==
    [pc |-> "idle", id |-> <<>>, req |-> <<>>,
     handle |-> FALSE,      \* the exec handle exists in the engine
     proc |-> "none",       \* the exec process: none, created, running, exited
     code |-> 0,            \* its exit code, once exited
     relay |-> "off",       \* the signal relay: off, on, stopped
     statusC |-> <<>>,      \* the exit-status channel (capacity 1)
     status |-> NoStatus,   \* the status the main goroutine received
     waitDone |-> FALSE,    \* the Wait goroutine has sent its one status
     cancelled |-> FALSE,   \* ctx has been cancelled
     signals |-> 0,         \* OS signals received by the calling process
     killed |-> 0,          \* signals the relay delivered to the running process
     deleted |-> 0,         \* times the handle was deleted from the engine
     config |-> <<>>, pspec |-> <<>>, io |-> <<>>,
     events |-> <<>>]       \* the engine calls of the session, in order

\* the driver runs one operation at a time
Idle == exec.pc \in {"idle", "done"}

\* a driver operation is called: the previous result and session are dropped
CanCall(max) == Idle /\ nops < max

InitContainers == [id \in IDSet |-> ContainerStates(id)]

Init ==
    /\ containers \in [IDSet -> UNION {ContainerStates(id) : id \in IDSet}]
    /\ \A id \in IDSet : containers[id] \in InitContainers[id]
    /\ images = {}
    /\ last = NoResult
    /\ exec = NoExec
    /\ nops = 0
    /\ runtime = NewContainerdClient("capi")

----------------------------------------------------------------------------
(* Atomic driver operations *)

\* the containers DeleteContainer or KillContainer went on to handle: the
\* one it loaded, once it issues a call on it
Handled(calls, req) == IF Len(calls) > 1 THEN {req} ELSE {}

DoDeleteContainer ==
    /\ CanCall(MaxOps)
    /\ \E req \in Reqs, f \in FaultSets(DeleteFaults) :
          LET r == DeleteContainer(containers, req, f)
          IN  /\ containers' = r.cs
              /\ last' = Result("DeleteContainer", req, <<>>, f,
                               [err |-> r.err, calls |-> r.calls,
                                acted |-> Handled(r.calls, req)], containers)
    /\ exec' = NoExec
    /\ nops' = nops + 1
    /\ UNCHANGED runtime
    /\ UNCHANGED images

DoKillContainer ==
    /\ CanCall(MaxOps)
    /\ \E req \in Reqs, signal \in SignalArgs, f \in FaultSets(KillFaults),
          dies \in BOOLEAN :
          LET r == KillContainer(containers, req, signal, f, dies)
          IN  /\ containers' = r.cs
              /\ last' = Result("KillContainer", req, signal, f,
                               [err |-> r.err, calls |-> r.calls, sent |-> r.sent,
                                acted |-> Handled(r.calls, req)], containers)
    /\ exec' = NoExec
    /\ nops' = nops + 1
    /\ UNCHANGED runtime
    /\ UNCHANGED images

DoGetHostPort(args) ==
    /\ CanCall(MaxOps)
    /\ \E req \in Reqs, pp \in args, f \in FaultSets(HostPortFaults) :
          last' = Result("GetHostPort", req, pp, f,
                         GetHostPort(containers, req, pp, f), containers)
    /\ exec' = NoExec
    /\ nops' = nops + 1
    /\ UNCHANGED runtime
    /\ UNCHANGED <<containers, images>>

\* the inputs of an inspecting operation: the calls that fail (f), the
\* containers whose inspection fails (bad), and how the two templates render
InspectInputs ==
    {[f |-> f, bad |-> {}, r4 |-> RenderOk, r6 |-> RenderOk] : f \in FaultSets(DebugFaults)}
    \cup {[f |-> {}, bad |-> {id}, r4 |-> RenderOk, r6 |-> RenderOk] : id \in IDSet}
    \cup {[f |-> {}, bad |-> {}, r4 |-> r, r6 |-> RenderOk] : r \in RenderOutcomes}
    \cup {[f |-> {}, bad |-> {}, r4 |-> RenderOk, r6 |-> r] : r \in RenderOutcomes}

DoGetContainerIPs ==
    /\ CanCall(MaxOps)
    /\ \E req \in Reqs, in \in InspectInputs :
          last' = Result("GetContainerIPs", req, <<in.r4, in.r6>>, in.f,
                         GetContainerIPs(containers, req, in.f, in.bad, in.r4, in.r6),
                         containers)
    /\ exec' = NoExec
    /\ nops' = nops + 1
    /\ UNCHANGED runtime
    /\ UNCHANGED <<containers, images>>

DoContainerDebugInfo ==
    /\ CanCall(MaxOps)
    /\ \E req \in Reqs, in \in InspectInputs :
          last' = Result("ContainerDebugInfo", req, <<>>, in.f,
                         ContainerDebugInfo(containers, req, in.f, in.bad), containers)
    /\ exec' = NoExec
    /\ nops' = nops + 1
    /\ UNCHANGED runtime
    /\ UNCHANGED <<containers, images>>

\* the previous call of PullContainerImageIfNotExists, as the next one's
\* result remembers it
NoPull ==
    [called |-> FALSE, image |-> [domain |-> "", repo |-> "", tag |-> ""],
     err |-> NoErr, calls |-> <<>>, faults |-> {}]

PreviousPull ==
    IF last.op = "PullContainerImageIfNotExists"
    THEN [called |-> TRUE, image |-> last.arg, err |-> last.r.err,
          calls |-> last.r.calls, faults |-> last.faults]
    ELSE NoPull

DoPullContainerImageIfNotExists ==
    /\ CanCall(MaxPulls)
    /\ \E image \in ImageRefs, f \in FaultSets(PullFaults) :
          LET r == PullContainerImageIfNotExists(images, image, f)
          IN  /\ images' = r.imgs
              /\ last' = Result("PullContainerImageIfNotExists", <<>>, image, f,
                               [err |-> r.err, calls |-> r.calls, had |-> images,
                                prev |-> PreviousPull], <<>>)
    /\ exec' = NoExec
    /\ nops' = nops + 1
    /\ UNCHANGED runtime
    /\ UNCHANGED containers

\* generateExecProcessSpec on a container whose spec.Process carries the
\* environment specEnv, for a caller that passes the environment env
DoGenerateExecProcessSpec ==
    /\ CanCall(MaxOps)
    /\ \E specEnv \in SeqsUpTo(EnvEntries, MaxEnv), env \in SeqsUpTo(EnvEntries, MaxEnv),
          input \in {"nil", "in"}, f \in FaultSets(SpecFaults) :
          LET process == [Args |-> <<"init">>, Env |-> specEnv,
                          Capabilities |-> ContainerCaps]
              config == [InputBuffer |-> input, OutputBuffer |-> "out",
                         ErrorBuffer |-> "err", EnvironmentVars |-> env]
              r == generateExecProcessSpec(process, config, <<"cmd">>, f)
          IN  last' = Result("generateExecProcessSpec", <<>>, config, f,
                             [err |-> r.err, pspec |-> r.pspec, process |-> process,
                              calls |-> IF "Spec" \in f THEN <<"Spec">>
                                        ELSE <<"Spec", "cap.Current">>], <<>>)
    /\ exec' = NoExec
    /\ nops' = nops + 1
    /\ UNCHANGED runtime
    /\ UNCHANGED <<containers, images>>

DoListContainers ==
    /\ CanCall(MaxOps)
    /\ \E info \in [IDSet -> InfoOutcomes], f \in FaultSets(ListFaults),
          marked \in BOOLEAN :
          LET r == ListContainers(containers, info, f, marked)
          IN  last' = Result("ListContainers", <<>>, [info |-> info, marked |-> marked],
                             f, [err |-> r.err, result |-> r.result, calls |-> r.calls,
                                 warned |-> r.warned, acted |-> {}], containers)
    /\ exec' = NoExec
    /\ nops' = nops + 1
    /\ UNCHANGED runtime
    /\ UNCHANGED <<containers, images>>

\* a driver operation is called with a context: the namespaces its engine
\* calls and its file reads are made under
DoScopedCall ==
    /\ CanCall(MaxOps)
    /\ \E op \in DriverOps, ctx \in Contexts :
          last' = Result(op, <<>>, ctx, {},
                         [err |-> NoErr, calls |-> <<>>,
                          engineNamespace |-> OpContext(op, runtime, ctx).namespace,
                          fileNamespace |-> FileNamespace(op, runtime, ctx)], <<>>)
    /\ exec' = NoExec
    /\ nops' = nops + 1
    /\ UNCHANGED <<containers, images, runtime>>

\* getPrintableContainerName on any label map
DoGetPrintableContainerName ==
    /\ CanCall(MaxOps)
    /\ \E containerLabels \in LabelMaps :
          last' = Result("getPrintableContainerName", <<>>, containerLabels, {},
                         [err |-> NoErr, calls |-> <<>>,
                          name |-> getPrintableContainerName(containerLabels)], <<>>)
    /\ exec' = NoExec
    /\ nops' = nops + 1
    /\ UNCHANGED runtime
    /\ UNCHANGED <<containers, images>>

----------------------------------------------------------------------------
(* ExecContainer *)

ExecFaults == {"Containers", "Spec", "cap.Current", "Task", "task.Exec"}

\* task.Exec: the engine creates an exec process in a task that is running
\* or created
TaskExec(c, f) ==
    IF "task.Exec" \in f THEN Err("engine", RpcCause)
    ELSE IF c.task \notin {"Running", "Created"}
    THEN Err("failed precondition", "cannot exec in this state")
    ELSE NoErr

\* process.Delete(ctx): fails under a cancelled context and for a process
\* that is still running; removes the exec handle otherwise
ProcessDelete(e) ==
    IF e.cancelled \/ e.proc = "running" \/ ~e.handle
    THEN [e EXCEPT !.events = Append(@, "process.Delete")]
    ELSE [e EXCEPT !.events = Append(@, "process.Delete"),
                   !.handle = FALSE, !.deleted = @ + 1]

\* commands.StopCatch(sigc)
StopCatch(e) == [e EXCEPT !.events = Append(@, "StopCatch"), !.relay = "stopped"]

\* a function that would run its deferred calls in registration order
RunDeferredInOrder(e) ==
    LET deleted == IF e.proc = "none" THEN e ELSE ProcessDelete(e)
    IN  IF e.relay = "on" THEN StopCatch(deleted) ELSE deleted

\* the deferred calls of execActionWithContainer, run last-registered first
\* when it returns: StopCatch if the relay was started, then process.Delete
\* if the exec handle was created
RunDeferred(e) ==
    LET stopped == IF e.relay = "on" THEN StopCatch(e) ELSE e
    IN  IF e.proc = "none" THEN stopped ELSE ProcessDelete(stopped)

\* ExecContainer returns err: the deferred calls run, and the result is recorded
ExecReturn(e, err, f) ==
    LET done == [RunDeferred(e) EXCEPT !.pc = "done"]
    IN  /\ exec' = done
        /\ last' = Result("ExecContainer", e.req, e.config, f,
                         [err |-> err, calls |-> done.events,
                          acted |-> IF e.id = <<>> THEN {} ELSE {e.id}],
                         containers)
        /\ UNCHANGED <<containers, images>>

\* ExecContainer up to task.Exec: the walk, the OnFound callback's ambiguity
\* check, generateExecProcessSpec, container.Task, cio.WithStreams, task.Exec
ExecBegin ==
    /\ CanCall(MaxOps)
    /\ nops' = nops + 1
    /\ UNCHANGED runtime
    /\ \E req \in Reqs, config \in ExecConfigs, f \in FaultSets(ExecFaults) :
          LET founds == WalkFound(containers, req)
              id == founds[1].Container
              gen == generateExecProcessSpec(ContainerProcess(id), config, <<"cmd">>, f)
              s0 == [NoExec EXCEPT !.req = req, !.config = config,
                                   !.events = <<"Containers">>]
              s1 == [s0 EXCEPT !.id = id, !.events = Append(@, "Spec")]
              s2 == [s1 EXCEPT !.pspec = gen.pspec, !.events = Append(@, "Task")]
              s3 == [s2 EXCEPT !.io = ExecStreams(config),
                               !.events = Append(@, "task.Exec")]
          IN  IF "Containers" \in f THEN ExecReturn(s0, Err("engine", RpcCause), f)
              ELSE IF NoMatch(Len(founds))
              THEN ExecReturn(s0, Err("no such container", req), f)
              ELSE IF founds[1].MatchCount > 1
              THEN ExecReturn(s0, Err("ambiguous", req), f)
              ELSE IF gen.err # NoErr THEN ExecReturn(s1, gen.err, f)
              ELSE IF ContainerTask(containers[id], f) # NoErr
              THEN ExecReturn(s2, ContainerTask(containers[id], f), f)
              ELSE IF TaskExec(containers[id], f) # NoErr
              THEN ExecReturn(s3, TaskExec(containers[id], f), f)
              ELSE /\ exec' = [s3 EXCEPT !.pc = "created", !.handle = TRUE,
                                         !.proc = "created"]
                   /\ last' = NoResult
                   /\ UNCHANGED <<containers, images>>

\* statusC, err := process.Wait(ctx)
ExecWait ==
    /\ exec.pc = "created"
    /\ UNCHANGED <<nops, runtime>>
    /\ \E fault \in BOOLEAN :
          LET e == [exec EXCEPT !.events = Append(@, "Wait")]
          IN  IF fault \/ exec.cancelled
              THEN ExecReturn(e, Err("engine", RpcCause), {"Wait"})
              ELSE /\ exec' = [e EXCEPT !.pc = "subscribed"]
                   /\ UNCHANGED <<containers, images, last>>

\* sigc := commands.ForwardAllSignals(ctx, process); defer commands.StopCatch(sigc)
ExecForwardAllSignals ==
    /\ exec.pc = "subscribed"
    /\ exec' = [exec EXCEPT !.pc = "forwarding", !.relay = "on",
                            !.events = Append(@, "ForwardAllSignals")]
    /\ UNCHANGED <<containers, images, last, nops, runtime>>

\* a driver that would return success as soon as the process is started
ExecStartWithoutWait ==
    /\ exec.pc = "forwarding"
    /\ UNCHANGED <<nops, runtime>>
    /\ \E fault \in BOOLEAN :
          LET e == [exec EXCEPT !.events = Append(@, "Start")]
          IN  IF fault \/ exec.cancelled
              THEN ExecReturn(e, Err("engine", RpcCause), {"Start"})
              ELSE ExecReturn([e EXCEPT !.proc = "running"], NoErr, {})

\* process.Start(ctx)
ExecStart ==
    /\ exec.pc = "forwarding"
    /\ UNCHANGED <<nops, runtime>>
    /\ \E fault \in BOOLEAN :
          LET e == [exec EXCEPT !.events = Append(@, "Start")]
          IN  IF fault \/ exec.cancelled
              THEN ExecReturn(e, Err("engine", RpcCause), {"Start"})
              ELSE /\ exec' = [e EXCEPT !.pc = "started", !.proc = "running"]
                   /\ UNCHANGED <<containers, images, last>>

\* a function that would not look at the exit code
StatusResultIgnoringCode(status) ==
    IF status.err # "" THEN Err("engine", status.err) ELSE NoErr

\* code, _, err := status.Result() and what execActionWithContainer returns
\* for it
StatusResult(status) ==
    IF status.err # "" THEN Err("engine", status.err)
    ELSE IF status.code # 0 THEN Err("exec failed", status.code)
    ELSE NoErr

\* status := <-statusC; code, _, err := status.Result()
ExecStatus ==
    /\ exec.pc = "started"
    /\ exec.statusC # <<>>
    /\ UNCHANGED <<nops, runtime>>
    /\ LET status == exec.statusC[1]
           e == [exec EXCEPT !.statusC = <<>>, !.status = status,
                             !.events = Append(@, "status")]
       IN  ExecReturn(e, StatusResult(status), {})

----------------------------------------------------------------------------
(* The environment of an exec session *)

\* exit codes of the exec process: success, failure, and the code of a
\* process that a SIGTERM terminated
ExitCodes == {0, 1, 143}

\* the exec process exits; the Wait goroutine, unless it has already sent,
\* sends the exit status on statusC
ProcessExit ==
    /\ exec.pc \notin {"idle", "done"}
    /\ exec.proc = "running"
    /\ \E code \in ExitCodes :
          exec' = [exec EXCEPT
                      !.proc = "exited", !.code = code,
                      !.waitDone = TRUE,
                      !.statusC = IF exec.waitDone THEN @
                                  ELSE <<[code |-> code, err |-> ""]>>]
    /\ UNCHANGED <<containers, images, last, nops, runtime>>

\* the Wait call of the goroutine fails: the transport broke, or ctx was
\* cancelled; the goroutine sends the error as the status
WaitFails ==
    /\ exec.pc \in {"subscribed", "forwarding", "started"}
    /\ ~exec.waitDone
    /\ \E cancel \in BOOLEAN :
          exec' = [exec EXCEPT
                      !.waitDone = TRUE,
                      !.cancelled = cancel,
                      !.statusC = <<[code |-> 0,
                                     err |-> IF cancel THEN "context canceled"
                                             ELSE RpcCause]>>]
    /\ UNCHANGED <<containers, images, last, nops, runtime>>

\* ctx is cancelled after the Wait goroutine has sent its status
CtxCancelled ==
    /\ exec.pc \in {"subscribed", "forwarding", "started"}
    /\ exec.waitDone
    /\ ~exec.cancelled
    /\ exec' = [exec EXCEPT !.cancelled = TRUE]
    /\ UNCHANGED <<containers, images, last, nops, runtime>>

\* an OS signal reaches the calling process while the relay runs: the relay
\* calls process.Kill, which delivers it to a running process and fails (the
\* error is logged) otherwise
SignalForwarded ==
    /\ exec.pc \notin {"idle", "done"}
    /\ exec.relay = "on"
    /\ exec.signals < MaxSignals
    /\ exec' = [exec EXCEPT
                   !.signals = @ + 1,
                   !.killed = IF exec.proc = "running" /\ ~exec.cancelled
                              THEN @ + 1 ELSE @]
    /\ UNCHANGED <<containers, images, last, nops, runtime>>

----------------------------------------------------------------------------
(* Specification *)

\* port/protocol arguments of the lifecycle specification
SomePortArgs ==
    { <<"8", "0", "8", "0", "/", "t", "c", "p">>,
      <<"8", "0", "8", "0", "/", "u", "d", "p">>,
      <<"x">> }

Next ==
    \/ DoDeleteContainer
    \/ DoKillContainer
    \/ DoGetHostPort(SomePortArgs)
    \/ DoGetContainerIPs
    \/ DoContainerDebugInfo
    \/ ExecBegin
    \/ ExecWait
    \/ ExecForwardAllSignals
    \/ ExecStart
    \/ ExecStatus
    \/ ProcessExit
    \/ WaitFails
    \/ CtxCancelled
    \/ SignalForwarded

Spec == Init /\ [][Next]_vars

\* the main goroutine receives from statusC once a status has been sent, and
\* the exec process exits, on its own or by the forwarded signal
FairSpec == Spec /\ WF_vars(ExecStatus) /\ WF_vars(ProcessExit)

\* exec sessions only: ExecContainer is called on any engine state, and the
\* session runs against its environment
ExecNext ==
    \/ ExecBegin
    \/ ExecWait
    \/ ExecForwardAllSignals
    \/ ExecStart
    \/ ExecStatus
    \/ ProcessExit
    \/ WaitFails
    \/ CtxCancelled
    \/ SignalForwarded

ExecSpec == Init /\ [][ExecNext]_vars

\* the goroutine that runs execActionWithContainer is scheduled: each of its
\* steps is taken once it can be, the receive from statusC included
ExecFairSpec ==
    /\ ExecSpec
    /\ WF_vars(ExecWait)
    /\ WF_vars(ExecForwardAllSignals)
    /\ WF_vars(ExecStart)
    /\ WF_vars(ExecStatus)

\* listings only: ListContainers is called on any engine state
ListNext == DoListContainers

ListSpec == Init /\ [][ListNext]_vars

\* kills only: KillContainer is called on any engine state
KillNext == DoKillContainer

KillSpec == Init /\ [][KillNext]_vars

\* deletions only: DeleteContainer is called on any engine state
DeleteNext == DoDeleteContainer

DeleteSpec == Init /\ [][DeleteNext]_vars

\* image pulls: the image index starts empty and the driver is asked for
\* images, one call after the other
PullInit ==
    /\ containers = [id \in IDSet |-> NoContainer]
    /\ images = {}
    /\ last = NoResult
    /\ exec = NoExec
    /\ nops = 0
    /\ runtime = NewContainerdClient("capi")

PullNext == DoPullContainerImageIfNotExists

PullSpec == PullInit /\ [][PullNext]_vars

\* host-port lookups: container "ac" carries any port-mapping label, and
\* container "ab" exists or not
PortInit ==
    /\ \E label \in PortLabels, other \in BOOLEAN :
          containers =
              [id \in IDSet |->
                  IF id = <<"a", "c">>
                  THEN [present |-> TRUE, name |-> <<"n">>, task |-> "Running",
                        ports |-> label, stopSignal |-> "", hasLog |-> FALSE]
                  ELSE IF other
                  THEN [present |-> TRUE, name |-> <<>>, task |-> "Running",
                        ports |-> AbsentLabel, stopSignal |-> "", hasLog |-> FALSE]
                  ELSE NoContainer]
    /\ images = {}
    /\ last = NoResult
    /\ exec = NoExec
    /\ nops = 0
    /\ runtime = NewContainerdClient("capi")

PortNext == DoGetHostPort(PortArgs)

PortSpec == PortInit /\ [][PortNext]_vars

\* exec process specs: the driver synthesizes the process spec of an exec
EnvInit ==
    /\ containers = [id \in IDSet |-> NoContainer]
    /\ images = {}
    /\ last = NoResult
    /\ exec = NoExec
    /\ nops = 0
    /\ runtime = NewContainerdClient("capi")

EnvNext == DoGenerateExecProcessSpec

EnvSpec == EnvInit /\ [][EnvNext]_vars

\* namespaces: a handle is constructed for any namespace, and operations are
\* called with any context
NamespaceInit ==
    /\ containers = [id \in IDSet |-> NoContainer]
    /\ images = {}
    /\ last = NoResult
    /\ exec = NoExec
    /\ nops = 0
    /\ \E namespace \in Namespaces : runtime = NewContainerdClient(namespace)

NamespaceNext == DoScopedCall

NamespaceSpec == NamespaceInit /\ [][NamespaceNext]_vars

\* display names: getPrintableContainerName is applied to any label map
NameNext == DoGetPrintableContainerName

NameSpec == EnvInit /\ [][NameNext]_vars

----------------------------------------------------------------------------
(* Properties: deletion *)

DeleteReturned(id) ==
    /\ last.op = "DeleteContainer"
    /\ last.req = id
    /\ last.pre[id].present

C2_RemovedOnlyWithoutLiveTask ==
    \A id \in IDSet :
        (DeleteReturned(id) /\ ~containers[id].present)
        => last.pre[id].task \in {"None", "Stopped", "Created"}

----------------------------------------------------------------------------
(* Properties: name resolution *)

ResolutionOps ==
    {"ExecContainer", "GetHostPort", "GetContainerIPs", "ContainerDebugInfo",
     "KillContainer", "DeleteContainer"}

\* a resolution-dependent operation has looked its name up and returned, the
\* engine having answered its calls, and n containers matched the name
Resolved(n) ==
    /\ last.op \in ResolutionOps
    /\ last.r.calls # <<>>
    /\ last.faults = {}
    /\ Len(WalkMatches(last.pre, last.req)) = n

NotFoundKinds == {"no such container", "no such object", "not found"}

\* what the operation returned or wrote besides its error
Output(res) ==
    CASE res.op = "GetHostPort" -> res.r.port
      [] res.op = "GetContainerIPs" -> res.r.ip \o res.r.ipv6
      [] res.op = "ContainerDebugInfo" -> res.r.out
      [] OTHER -> <<>>

\* C3: for a name that more than one container matches, every
\* resolution-dependent operation returns the ambiguous-ID error, handles
\* none of the candidates, and changes nothing in the engine.
C3_AmbiguousRefused ==
    \A n \in 2..Len(IDOrder) :
        Resolved(n)
        => /\ last.r.err.kind = "ambiguous"
           /\ last.r.acted = {}
           /\ containers = last.pre
           /\ ~exec.handle

\* C4: for a name that no container matches, every resolution-dependent
\* operation returns a not-found error (which is not the ambiguous-ID
\* error), writes nothing, and changes nothing in the engine.
C4_NoMatchNotFound ==
    Resolved(0)
    => /\ last.r.err.kind \in NotFoundKinds
       /\ last.r.err.kind # "ambiguous"
       /\ Output(last) = <<>>
       /\ last.r.acted = {}
       /\ containers = last.pre
       /\ ~exec.handle

C4_Witness ==
    /\ Resolved(0)
    /\ last.op = "ContainerDebugInfo"
    /\ last.r.err.kind = "no such object"

----------------------------------------------------------------------------
(* Properties: exec sessions *)

\* ExecContainer has returned from a session in which task.Exec created an
\* exec handle
SessionReturned == exec.pc = "done" /\ exec.proc # "none"

Count(seq, x) == Cardinality({i \in 1..Len(seq) : seq[i] = x})

\* C5: when ExecContainer returns, the exec handle task.Exec created has
\* been deleted from the engine, on every exit path.
C5_NoOrphanedHandle == SessionReturned => ~exec.handle

\* C6: in a session in which a forwarded signal reached the running exec
\* process and the process exited (by the signal or on its own, in either
\* order with further signals), when ExecContainer has returned
\* process.Delete was called exactly once and removed the exec handle exactly
\* once.
C6_SignalledSessionDeletedOnce ==
    (SessionReturned /\ exec.killed > 0 /\ exec.proc = "exited")
    => /\ Count(exec.events, "process.Delete") = 1
       /\ exec.deleted = 1
       /\ ~exec.handle

----------------------------------------------------------------------------
(* Properties: exec process spec *)

Names(env) == {EnvName(env[i]) : i \in 1..Len(env)}

\* the entries of env that set the variable name
EntriesOf(env, name) == {i \in 1..Len(env) : EnvName(env[i]) = name}

OneEntryPerName(env) == \A name \in Names(env) : Cardinality(EntriesOf(env, name)) = 1

SpecSynthesized ==
    /\ last.op = "generateExecProcessSpec"
    /\ last.r.err = NoErr
    /\ OneEntryPerName(last.r.process.Env)
    /\ OneEntryPerName(last.arg.EnvironmentVars)

\* C7: for a container environment and a caller environment that each set a
\* variable once, the synthesized environment has exactly one entry per
\* variable name: the caller's entry for a variable the caller supplies, the
\* container's entry for any other.
C7_EnvMergedByName ==
    SpecSynthesized
    => LET specEnv == last.r.process.Env
           env == last.arg.EnvironmentVars
           out == last.r.pspec.Env
       IN  /\ OneEntryPerName(out)
           /\ Names(out) = Names(specEnv) \cup Names(env)
           /\ \A i \in 1..Len(env) : \E k \in 1..Len(out) : out[k] = env[i]
           /\ \A i \in 1..Len(specEnv) :
                 EnvName(specEnv[i]) \notin Names(env)
                 => \E k \in 1..Len(out) : out[k] = specEnv[i]

----------------------------------------------------------------------------
(* Properties: image pull *)

PullReturned == last.op = "PullContainerImageIfNotExists"

\* the canonical form of a well-formed reference: default domain and tag
\* filled in
Canonical(image) ==
    [domain |-> IF image.domain \in {"", "index.docker.io"} THEN "docker.io"
                ELSE image.domain,
     repo |-> image.repo,
     tag |-> IF image.tag = "" THEN "latest" ELSE image.tag]

WellFormed(image) == image.repo # "Nginx"

\* C8: a call that finds the canonical name of its reference in the image
\* index succeeds without invoking Pull; and of two consecutive calls for the
\* same reference, the first of which succeeded, the second succeeds and the
\* two invoke Pull at most once.
C8_PullIdempotent ==
    /\ (PullReturned /\ WellFormed(last.arg) /\ last.faults = {}
          /\ Canonical(last.arg) \in last.r.had)
        => (last.r.err = NoErr /\ Count(last.r.calls, "Pull") = 0)
    /\ (PullReturned /\ last.faults = {} /\ last.r.prev.called
          /\ last.r.prev.image = last.arg /\ last.r.prev.err = NoErr)
        => /\ last.r.err = NoErr
           /\ Count(last.r.prev.calls, "Pull") + Count(last.r.calls, "Pull") <= 1

\* C9: one call lists the images at most once and pulls at most once; a
\* malformed reference is reported before any engine call, a listing failure
\* without a pull, a pull failure after the one pull; each of the three
\* errors has its own kind and carries the cause.
C9_PullNeverRetries ==
    PullReturned
    => LET r == last.r
       IN  /\ Count(r.calls, "ListImages") <= 1
           /\ Count(r.calls, "Pull") <= 1
           /\ ~WellFormed(last.arg)
              => (r.calls = <<>> /\ r.err.kind = "failed to parse image reference"
                  /\ r.err.cause = "repository name must be lowercase")
           /\ "ListImages" \in last.faults
              => (r.calls = <<"ListImages">> /\ r.err = Err("error listing images", RpcCause))
           /\ "Pull" \in last.faults
              => (r.calls = <<"ListImages", "Pull">>
                  /\ r.err = Err("error pulling image", RpcCause))
           /\ r.err.kind = "failed to parse image reference" => r.calls = <<>>
           /\ r.err.kind = "error listing images" => r.calls = <<"ListImages">>
           /\ r.err.kind = "error pulling image" => r.calls = <<"ListImages", "Pull">>
           /\ r.err.kind \in {"nil", "failed to parse image reference",
                               "error listing images", "error pulling image"}

C9_Witness ==
    /\ PullReturned
    /\ "Pull" \in last.faults
    /\ last.r.err = Err("error pulling image", RpcCause)
    /\ last.r.prev.called
    /\ "ListImages" \in last.r.prev.faults

----------------------------------------------------------------------------
(* Properties: host port *)

\* GetHostPort has returned for a well-formed port argument and a name that
\* exactly one container matches, the engine having answered its calls, and
\* the container's port-mapping label is absent or lists mappings
HostPortResolved ==
    /\ last.op = "GetHostPort"
    /\ last.faults = {}
    /\ ParsePortProto(last.arg).err = NoErr
    /\ Len(WalkMatches(last.pre, last.req)) = 1
    /\ LET label == last.pre[WalkMatches(last.pre, last.req)[1]].ports
       IN  label.set => label.json

\* the entries of the mappings ps for the requested port and protocol
MatchingEntries(ps, port, proto) ==
    {i \in 1..Len(ps) :
        ps[i].ContainerPort = port /\ ToLower(ps[i].Protocol) = ToLower(proto)}

\* C10: GetHostPort on a uniquely resolved container returns the host port,
\* in decimal, of the first entry of the port-mapping label that has the
\* requested container port and, ignoring case, the requested protocol; when
\* no entry matches, the label being absent or empty included, it returns the
\* no-host-port-found error.
C10_FirstMatchingHostPort ==
    HostPortResolved
    => LET ps == last.pre[WalkMatches(last.pre, last.req)[1]].ports.ports
           arg == ParsePortProto(last.arg)
           hits == MatchingEntries(ps, arg.argPort, arg.argProto)
       IN  IF hits = {}
           THEN last.r.err.kind = "no host port found"
           ELSE /\ last.r.err = NoErr
                /\ last.r.port =
                       Itoa(ps[CHOOSE i \in hits : \A j \in hits : i <= j].HostPort)

\* a port/protocol argument GetHostPort has to reject: the port part is
\* missing, is no integer or is not positive, or there is more than one "/"
InvalidPortArg(arg) ==
    LET parts == SplitBySlash(arg)
        port == Atoi(parts[1])
    IN  parts[1] = <<>> \/ ~port.ok \/ port.val <= 0 \/ Len(parts) > 2

\* C11: GetHostPort rejects an invalid port/protocol argument with an error
\* before it resolves the name or calls the engine; an argument without a
\* protocol part is looked up as the same port with protocol tcp.
C11_PortArgValidatedFirst ==
    last.op = "GetHostPort"
    => /\ InvalidPortArg(last.arg)
          => (last.r.err # NoErr /\ last.r.calls = <<>> /\ last.r.acted = {})
       /\ (~InvalidPortArg(last.arg) /\ Len(SplitBySlash(last.arg)) = 1)
          => last.r = GetHostPort(last.pre, last.req,
                                  last.arg \o <<"/", "t", "c", "p">>, last.faults)

----------------------------------------------------------------------------
(* Properties: exec relay, result, privileges and streams *)

\* the positions of the call x among the engine calls of the session
Positions(seq, x) == {i \in 1..Len(seq) : seq[i] = x}

\* C12: when ExecContainer has returned, a signal relay the session started
\* has been stopped, exactly once, on every exit path, and it was stopped
\* before the deferred deletion of the exec handle was issued.
C12_RelayStoppedBeforeDelete ==
    exec.pc = "done"
    => /\ exec.relay # "on"
       /\ Count(exec.events, "StopCatch") = Count(exec.events, "ForwardAllSignals")
       /\ \A i \in Positions(exec.events, "StopCatch") :
             \A j \in Positions(exec.events, "process.Delete") : i < j

C12_Witness ==
    /\ exec.pc = "done"
    /\ exec.relay = "stopped"
    /\ "Start" \in last.faults
    /\ Positions(exec.events, "process.Delete") # {}

\* C13: ExecContainer returns success exactly when it received an exit
\* status with code 0 and no error; a status with a nonzero code and no error
\* is returned as the exec-failed error carrying that code, and no engine or
\* transport failure is returned as an exec-failed error or as success.
C13_SuccessIffExitZero ==
    last.op = "ExecContainer"
    => /\ last.r.err = NoErr <=> (exec.status.err = "" /\ exec.status.code = 0)
       /\ (exec.status.err = "" /\ exec.status.code # 0)
          => last.r.err = Err("exec failed", exec.status.code)
       /\ last.r.err.kind = "exec failed"
          => (exec.status.err = "" /\ exec.status.code # 0 /\ last.faults = {})
       /\ (last.faults # {} \/ exec.status.err \notin {"", "none"})
          => last.r.err.kind \notin {"nil", "exec failed"}

C13_Witness ==
    /\ last.op = "ExecContainer"
    /\ exec.status = [code |-> 143, err |-> ""]
    /\ last.r.err = Err("exec failed", 143)
    /\ exec.killed > 0

\* the request sets a privileged flag
PrivilegedFlagSet(config) == "Privileged" \in DOMAIN config /\ config.Privileged

\* C14: after spec synthesis, if the request sets the privileged flag all four
\* capability sets are the current process's capability set, and if it does
\* not, the capability sets of the container's process spec are unchanged.
C14_PrivilegeConditional ==
    (last.op = "generateExecProcessSpec" /\ last.r.err = NoErr)
    => IF PrivilegedFlagSet(last.arg)
       THEN \A set \in {"Bounding", "Permitted", "Inheritable", "Effective"} :
               last.r.pspec.Capabilities[set] = CurrentCaps
       ELSE last.r.pspec.Capabilities = last.r.process.Capabilities

\* C15: the exec process task.Exec created has its stdin attached to the
\* request's input stream if the request carries one and unset otherwise, and
\* its stdout and stderr attached to the writers of the request.
C15_StreamsFromRequest ==
    exec.proc # "none"
    => /\ exec.io.stdin = exec.config.InputBuffer
       /\ exec.io.stdout = exec.config.OutputBuffer
       /\ exec.io.stderr = exec.config.ErrorBuffer

----------------------------------------------------------------------------
(* Properties: kill *)

KillReturned == last.op = "KillContainer"

\* the container KillContainer was asked for was in the engine
KillTargetPresent == last.req \in IDSet /\ last.pre[last.req].present

C17_ParseErrorBeforeDelivery ==
    KillReturned
    => /\ (last.arg # "" /\ SignalNumber(last.arg) = 0 /\ KillTargetPresent
           /\ "LoadContainer" \notin last.faults)
          => last.r.err = Err("invalid signal", last.arg)
       /\ last.r.err.kind = "invalid signal"
          => (Count(last.r.calls, "task.Kill") = 0 /\ last.r.sent = <<>>)
       /\ Count(last.r.calls, "task.Kill") > 0
          => /\ KillTargetPresent
             /\ last.pre[last.req].task # "None"
             /\ last.arg = "" \/ SignalNumber(last.arg) # 0
             /\ last.faults \cap {"LoadContainer", "Labels", "Task"} = {}
       /\ last.r.sent # <<>> => Count(last.r.calls, "task.Kill") > 0

C17_Witness ==
    /\ KillReturned
    /\ KillTargetPresent
    /\ last.pre[last.req].task = "Running"
    /\ last.arg = "BOGUS"
    /\ last.r.err.kind = "invalid signal"

----------------------------------------------------------------------------
(* Properties: listing *)

\* ListContainers has returned and the enumeration itself succeeded
Enumerated == last.op = "ListContainers" /\ "Containers" \notin last.faults

\* the containers of the enumeration, in order, and those among them whose
\* metadata fetch has the given outcome
EnumeratedIDs == SelectSeq(IDOrder, LAMBDA id : last.pre[id].present)

WithOutcome(outcome) == SelectSeq(EnumeratedIDs, LAMBDA id : last.arg.info[id] = outcome)

\* C18: a container whose metadata fetch fails with the engine's not-found
\* error is skipped: when no fetch fails otherwise, ListContainers returns no
\* error and exactly the summaries, in enumeration order, of the containers
\* whose fetch succeeded; when a fetch fails otherwise, it returns that error
\* and no result.
C18_VanishedSkipped ==
    Enumerated
    => IF WithOutcome("fail") = <<>>
       THEN /\ last.r.err = NoErr
            /\ last.r.result =
                  [i \in 1..Len(WithOutcome("ok")) |-> Summary(last.pre[WithOutcome("ok")[i]])]
       ELSE /\ last.r.err = Err("engine", RpcCause)
            /\ last.r.result = <<>>

----------------------------------------------------------------------------
(* Properties: display name *)

Has(key) == key \in DOMAIN last.arg

\* C20: the display name is the name label when present; else, with the
\* pod-namespace and pod-name labels both present, k8s://<ns>/<pod>/<container>
\* if the container-name label is present and k8s://<ns>/<pod> if not; else
\* the empty string.
C20_DisplayNamePrecedence ==
    last.op = "getPrintableContainerName"
    => LET name == last.r.name
           pod == <<"k", "8", "s", ":", "/", "/">> \o last.arg[PodNamespace]
                      \o <<"/">> \o last.arg[PodName]
       IN  /\ Has(NameLabel) => name = last.arg[NameLabel]
           /\ (~Has(NameLabel) /\ Has(PodNamespace) /\ Has(PodName) /\ Has(ContainerName))
              => name = pod \o <<"/">> \o last.arg[ContainerName]
           /\ (~Has(NameLabel) /\ Has(PodNamespace) /\ Has(PodName) /\ ~Has(ContainerName))
              => name = pod
           /\ (~Has(NameLabel) /\ ~(Has(PodNamespace) /\ Has(PodName)))
              => name = <<>>

C20_Witness ==
    /\ last.op = "getPrintableContainerName"
    /\ ~Has(NameLabel)
    /\ Has(ContainerName)
    /\ last.r.name = <<"k", "8", "s", ":", "/", "/", "d", "/", "w", "/", "d">>

----------------------------------------------------------------------------
(* Properties: namespace *)

\* C19: every driver operation issues its engine calls, and reads its files,
\* under the namespace the handle was constructed with, whatever context the
\* caller passes.
C19_ScopedToHandleNamespace ==
    (last.op \in DriverOps /\ "engineNamespace" \in DOMAIN last.r)
    => /\ last.r.engineNamespace = runtime.namespace
       /\ last.r.fileNamespace = runtime.namespace

----------------------------------------------------------------------------
(* ContainerDebugInfo on its own, over containers with and without a log file *)

\* the containers of the engine, each created with or without a json log file
DebugStates(id) ==
    ContainerStates(id) \cup
    {[c EXCEPT !.hasLog = ~c.hasLog] : c \in ContainerStates(id) \ {NoContainer}}

DebugInit ==
    /\ containers \in [IDSet -> UNION {DebugStates(id) : id \in IDSet}]
    /\ \A id \in IDSet : containers[id] \in DebugStates(id)
    /\ images = {}
    /\ last = NoResult
    /\ exec = NoExec
    /\ nops = 0
    /\ runtime = NewContainerdClient("capi")

DebugNext == DoContainerDebugInfo

DebugSpec == DebugInit /\ [][DebugNext]_vars

----------------------------------------------------------------------------
(* Properties: debug information *)

\* ContainerDebugInfo has returned for a name that exactly one container
\* matched, the engine having answered both enumerations and the inspection
DebugResolved ==
    /\ last.op = "ContainerDebugInfo"
    /\ Len(WalkMatches(last.pre, last.req)) = 1
    /\ {"Containers", "Containers#2"} \cap last.faults = {}
    /\ Count(last.r.calls, "Inspect") = 1
    /\ last.r.err.kind # "engine"

\* the container the name resolved to
DebugTarget == WalkMatches(last.pre, last.req)[1]

\* what the inspect step writes to the sink: the banner and the metadata
InspectOutput(ids) == << <<"Inspected the container:">>, <<"info">> \o ids >>

\* what the log step writes to the sink for a container
LogOutput(id) == << <<"Got logs from the container:">>, <<"logs">> \o id >>

\* C21: ContainerDebugInfo on a name that resolved to one container writes
\* the inspect metadata to the sink before it looks for the log file (the
\* metadata is the head of the output whenever the log step was attempted);
\* when the container's log file is absent it returns the distinct
\* not-created-detached error, not an I/O error, and the output is the
\* metadata alone; and it returns success only with the metadata followed by
\* the container's logs in the output, both steps having succeeded.
C21_InspectThenLogs ==
    DebugResolved =>
        LET out == last.r.out
            info == InspectOutput(<<DebugTarget>>)
        IN  /\ Positions(last.r.calls, "Containers#2") # {}
            /\ \A i \in Positions(last.r.calls, "Inspect") :
                   \A j \in Positions(last.r.calls, "Containers#2") : i < j
            /\ Len(out) >= 2 /\ SubSeq(out, 1, 2) = info
            /\ ~last.pre[DebugTarget].hasLog =>
                   /\ last.r.err.kind = "log file missing"
                   /\ out = info
            /\ last.r.err.kind = "log file missing" => ~last.pre[DebugTarget].hasLog
            /\ last.r.err = NoErr =>
                   /\ last.pre[DebugTarget].hasLog
                   /\ last.faults = {}
                   /\ out = info \o LogOutput(DebugTarget)

\* the log file of the resolved container is absent and the distinct error
\* came back after the metadata was written
C21_Witness ==
    /\ DebugResolved
    /\ ~last.pre[DebugTarget].hasLog
    /\ last.r.err.kind = "log file missing"
    /\ last.r.out = InspectOutput(<<DebugTarget>>)

----------------------------------------------------------------------------
(* GetContainerIPs on its own *)

IPNext == DoGetContainerIPs

IPSpec == Init /\ [][IPNext]_vars

----------------------------------------------------------------------------
(* Properties: address rendering *)

\* GetContainerIPs has reached its rendering stages: the name matched, the
\* engine answered and every matched container was inspected
Rendered ==
    /\ last.op = "GetContainerIPs"
    /\ last.faults = {}
    /\ Len(WalkMatches(last.pre, last.req)) > 0
    /\ Count(last.r.calls, "Inspect") = Len(WalkMatches(last.pre, last.req))
    /\ last.r.err.kind # "engine"

\* the entry the templates are rendered on
RenderedEntry == WalkMatches(last.pre, last.req)[1]

\* a rendering the pipeline cannot recover: the fallback failed, or the
\* typed rendering failed with an error that is no template.ExecError
Unrecovered(r) == (r.typed = "ExecError" /\ r.raw = "fail") \/ r.typed = "other"

\* C22: in each of the two renderings of GetContainerIPs the raw-JSON
\* fallback decides the result exactly when the typed rendering failed with
\* a template.ExecError, and then the fallback's output is the address; a
\* rendering that the fallback does not recover (the fallback failed, or the
\* typed rendering failed with an error of another class) makes the call
\* return an error and no address, never a successful, partial address.
C22_TwoStageRendering ==
    Rendered =>
        LET r4 == last.arg[1]
            r6 == last.arg[2]
        IN  /\ (Unrecovered(r4) \/ Unrecovered(r6))
                   => (last.r.err # NoErr /\ last.r.ip = <<>> /\ last.r.ipv6 = <<>>)
            /\ (~Unrecovered(r4) /\ ~Unrecovered(r6))
                   => /\ last.r.err = NoErr
                      /\ last.r.ip = <<IPAddress(RenderedEntry)>>
                      /\ last.r.ipv6 = <<GlobalIPv6Address(RenderedEntry)>>

----------------------------------------------------------------------------
(* Properties: the exec state machine *)

\* how far a session has come
PcRank(pc) ==
    CASE pc = "idle" -> 0
      [] pc = "created" -> 1
      [] pc = "subscribed" -> 2
      [] pc = "forwarding" -> 3
      [] pc = "started" -> 4
      [] pc = "done" -> 5

\* every call y of the session was issued after a call x
Preceded(x, y) ==
    \A j \in Positions(exec.events, y) : \E i \in Positions(exec.events, x) : i < j

\* the order of the engine calls of a session, and what a success rests on
ExecOrdered ==
    /\ Preceded("Spec", "Task")
    /\ Preceded("task.Exec", "Wait")
    /\ Preceded("Wait", "Start")
    /\ Preceded("Start", "status")
    /\ Positions(exec.events, "Wait") # {} => exec.proc # "none"
    /\ exec.proc \in {"running", "exited"} => Positions(exec.events, "Wait") # {}
    /\ (exec.proc = "exited" /\ exec.pc # "done") => exec.statusC # <<>>
    /\ (exec.pc = "done" /\ last.op = "ExecContainer" /\ last.r.err = NoErr)
           => /\ exec.status # NoStatus
              /\ exec.status.err = ""
              /\ exec.status.code = 0
              /\ exec.proc = "exited"
              /\ Positions(exec.events, "status") # {}

\* a step of a running session takes it forward and keeps its history
ExecForward ==
    nops' = nops =>
        /\ PcRank(exec'.pc) >= PcRank(exec.pc)
        /\ IsPrefix(exec.events, exec'.events)
        /\ exec.pc = "done" => exec' = exec

\* C23: an exec request only moves forward: the process spec is synthesized
\* before the task is loaded, the exec handle is created before the
\* exit-status subscription, the subscription is registered before the
\* process is started (a process that has exited has its status on the
\* channel), ExecContainer returns success only after it received an exit
\* status; and once the spawned process has exited, ExecContainer returns.
C23_ExecForwardOnly ==
    /\ []ExecOrdered
    /\ [][ExecForward]_vars
    /\ (exec.proc = "exited") ~> (exec.pc = "done")

\* a session ran through every stage: the process exited with code 0, the
\* status was received and ExecContainer returned success
C23_Witness ==
    /\ exec.pc = "done"
    /\ exec.proc = "exited"
    /\ last.op = "ExecContainer"
    /\ last.r.err = NoErr
    /\ exec.status = [code |-> 0, err |-> ""]
    /\ exec.events = <<"Containers", "Spec", "Task", "task.Exec", "Wait",
                       "ForwardAllSignals", "Start", "status", "StopCatch",
                       "process.Delete">>

----------------------------------------------------------------------------
(* Properties: deletion order *)

\* DeleteContainer removed the container it was asked for
Removed(id) == DeleteReturned(id) /\ ~containers[id].present

\* C24: DeleteContainer on a container whose task is Stopped or Created
\* removes the container only after it deleted the task and the deletion
\* succeeded; when reading the status or deleting the task fails it returns
\* the error and the container stays; so no container is removed while the
\* engine still holds its task.
C24_TaskDeletedBeforeContainer ==
    \A id \in IDSet :
        (DeleteReturned(id) /\ last.pre[id].task \in {"Stopped", "Created"})
        => /\ Removed(id)
              => /\ last.r.calls = <<"LoadContainer", "Task", "Status",
                                     "task.Delete", "container.Delete">>
                 /\ "task.Delete" \notin last.faults
                 /\ last.r.err = NoErr
           /\ ({"Status", "task.Delete"} \cap last.faults # {})
              => /\ last.r.err # NoErr
                 /\ containers[id] = last.pre[id]
                 /\ Positions(last.r.calls, "container.Delete") = {}
           /\ last.r.err = NoErr => Removed(id)

====
